---- MODULE Spec2Model ----
(***************************************************************************)
(* Model of backend/src/vehicle_count.py (class VehicleCount): the batch   *)
(* pipeline predict_vehicle_count and the helpers it owns (roi, distance,  *)
(* closest, time_in_range, is_weekday, is_peak, save_jam_info,             *)
(* plot_bounding_box).                                                     *)
(*                                                                         *)
(* Conventions.                                                            *)
(*  - A time of day is its number of seconds since midnight (strptime with *)
(*    %Y%m%d%H%M%S yields whole seconds); a date is its number of days     *)
(*    since 1970-01-01.                                                    *)
(*  - density is the exact rational num/den; the comparison with 23.33 is  *)
(*    done by cross-multiplication.                                        *)
(*  - numpy arrays live in a heap (arrays) and Python names hold           *)
(*    references to them, so that in-place drawing and aliasing are        *)
(*    visible.                                                             *)
(*  - An uncaught Python exception ends the run in pc = "raised".          *)
(***************************************************************************)
EXTENDS Integers, Sequences, FiniteSets, TLC

\* ------------------------------------------------------------------ bounds
\* Longest image list, ROI table, candidate list and peak-window list drawn
\* as inputs, and the largest vehicle count handed to the density formula.
MaxImages == 2
MaxRois == 2
MaxCandidates == 3
MaxWindows == 2
MaxCount == 30

\* ----------------------------------------------------------------- helpers
NoneVal == "None"

Time(h, m, s) == (h * 60 + m) * 60 + s

SecondsPerDay == 24 * 60 * 60

\* All sequences over S of length 0..n.
SeqUpTo(S, n) == UNION { [1..k -> S] : k \in 0..n }

\* ------------------------------------------------- __time_in_range, __is_peak
time_in_range_strict_end(start, end, x) ==
    IF start <= end THEN start <= x /\ x < end
                    ELSE start <= x \/ x <= end

time_in_range(start, end, x) ==
    IF start <= end THEN start <= x /\ x <= end
                    ELSE start <= x \/ x <= end

peak_hours ==
    << [Start |-> Time(8, 0, 0),  End |-> Time(10, 0, 0)],
       [Start |-> Time(18, 0, 0), End |-> Time(20, 30, 0)] >>

\* The for loop of __is_peak over a list of windows: k is the next window,
\* is_peak_bool the flag; the loop breaks as soon as the flag is set.
RECURSIVE is_peak_loop(_, _, _, _)
is_peak_loop(windows, k, is_peak_bool, t) ==
    IF k > Len(windows) \/ is_peak_bool
    THEN is_peak_bool
    ELSE is_peak_loop(windows, k + 1,
                      time_in_range(windows[k].Start, windows[k].End, t), t)

is_peak_first_window_only(windows, t) ==
    IF Len(windows) > 0
       /\ time_in_range(windows[1].Start, windows[1].End, t)
    THEN 1 ELSE 0

is_peak_over(windows, t) ==
    IF is_peak_loop(windows, 1, FALSE, t) THEN 1 ELSE 0

is_peak(image_datetime) == is_peak_over(peak_hours, image_datetime.time)

\* datetime.weekday(): Monday is 0; 1970-01-01 was a Thursday (3).
weekday(date) == (date + 3) % 7

is_weekday(image_datetime) ==
    IF weekday(image_datetime.date) < 5 THEN 1 ELSE 0

\* ------------------------------------------------------ density and jam
\* vehicle_count / (0.100 * 3), as the exact fraction
\* vehicle_count / ((100 * 3) / 1000).
density_area_four(vehicle_count) ==
    [num |-> vehicle_count * 1000, den |-> 100 * 4]

density_of(vehicle_count) ==
    [num |-> vehicle_count * 1000, den |-> 100 * 3]

\* 1 if density >= 23.33 else 0
jam_of(density) ==
    IF density.num * 100 >= 2333 * density.den THEN 1 ELSE 0

\* ------------------------------------------------- __distance, __closest
\* The haversine distance in metres (rounded to the metre) on the grid of
\* whole-degree points Latitudes x Longitudes, evaluated with the source's
\* formula and r = 6.371e6.
Latitudes == {1, 2}
Longitudes == {103, 104, 105}

haversine_table ==
    <<1, 103, 1, 103>> :> 0 @@
    <<1, 103, 1, 104>> :> 111178 @@
    <<1, 103, 1, 105>> :> 222356 @@
    <<1, 103, 2, 103>> :> 111195 @@
    <<1, 103, 2, 104>> :> 157225 @@
    <<1, 103, 2, 105>> :> 248569 @@
    <<1, 104, 1, 103>> :> 111178 @@
    <<1, 104, 1, 104>> :> 0 @@
    <<1, 104, 1, 105>> :> 111178 @@
    <<1, 104, 2, 103>> :> 157225 @@
    <<1, 104, 2, 104>> :> 111195 @@
    <<1, 104, 2, 105>> :> 157225 @@
    <<1, 105, 1, 103>> :> 222356 @@
    <<1, 105, 1, 104>> :> 111178 @@
    <<1, 105, 1, 105>> :> 0 @@
    <<1, 105, 2, 103>> :> 248569 @@
    <<1, 105, 2, 104>> :> 157225 @@
    <<1, 105, 2, 105>> :> 111195 @@
    <<2, 103, 1, 103>> :> 111195 @@
    <<2, 103, 1, 104>> :> 157225 @@
    <<2, 103, 1, 105>> :> 248569 @@
    <<2, 103, 2, 103>> :> 0 @@
    <<2, 103, 2, 104>> :> 111127 @@
    <<2, 103, 2, 105>> :> 222254 @@
    <<2, 104, 1, 103>> :> 157225 @@
    <<2, 104, 1, 104>> :> 111195 @@
    <<2, 104, 1, 105>> :> 157225 @@
    <<2, 104, 2, 103>> :> 111127 @@
    <<2, 104, 2, 104>> :> 0 @@
    <<2, 104, 2, 105>> :> 111127 @@
    <<2, 105, 1, 103>> :> 248569 @@
    <<2, 105, 1, 104>> :> 157225 @@
    <<2, 105, 1, 105>> :> 111195 @@
    <<2, 105, 2, 103>> :> 222254 @@
    <<2, 105, 2, 104>> :> 111127 @@
    <<2, 105, 2, 105>> :> 0

distance(lat1, lon1, lat2, lon2) == haversine_table[<<lat1, lon1, lat2, lon2>>]

key_distance(cam_coords, p) ==
    distance(cam_coords.Latitude, cam_coords.Longitude, p.AvgLat, p.AvgLon)

\* Python's min(data, key=...): a left-to-right scan that keeps the first
\* element whose key is smallest (replaced only by a strictly smaller key).
RECURSIVE min_scan(_, _, _, _)
min_scan(data, cam_coords, k, best) ==
    IF k > Len(data) THEN best
    ELSE min_scan(data, cam_coords, k + 1,
                  IF key_distance(cam_coords, data[k]) < key_distance(cam_coords, best)
                  THEN data[k] ELSE best)

RECURSIVE min_scan_last(_, _, _, _)
min_scan_last(data, cam_coords, k, best) ==
    IF k > Len(data) THEN best
    ELSE min_scan_last(data, cam_coords, k + 1,
                  IF key_distance(cam_coords, data[k]) <= key_distance(cam_coords, best)
                  THEN data[k] ELSE best)

min_by_distance_last(data, cam_coords) == min_scan_last(data, cam_coords, 2, data[1])

min_by_distance(data, cam_coords) == min_scan(data, cam_coords, 2, data[1])

\* list.index(x): the 0-based position of the first element equal to x.
list_index(data, x) ==
    (CHOOSE k \in 1..Len(data) :
        data[k] = x /\ \A j \in 1..(k - 1) : data[j] # x) - 1

closest(data, cam_coords) ==
    IF Len(data) = 0
    THEN [raised |-> "ValueError"]
    ELSE LET lat_long == min_by_distance(data, cam_coords)
             index == list_index(data, lat_long)
             dist == key_distance(cam_coords, lat_long)
         IN  [raised |-> NoneVal, index |-> index, lat_long |-> lat_long,
              distance |-> dist]

\* ------------------------------------------------------------- images, __roi
\* An image is a 2 x 2 raster; a pixel is <<x, y>> and its value one of
\* "black" (all channels 0), "gray" (the decoded picture), "white" (255 in
\* every channel, the mask colour) and "green" (the box colour).
Pixels == (0..1) \X (0..1)

\* cv2.imread(img_path): the decoded picture.
imread(img_path) == [p \in Pixels |-> "gray"]

zeros_like(a) == [p \in Pixels |-> "black"]

Min(S) == CHOOSE v \in S : \A w \in S : v <= w
Max(S) == CHOOSE v \in S : \A w \in S : v >= w

\* The pixels cv2.fillPoly covers for the vertex list coords. The polygons of
\* four or more vertices drawn as inputs are axis-aligned rectangles, whose
\* fill (border included) is their bounding box.
inside(coords, p) ==
    LET xs == { coords[k][1] : k \in 1..Len(coords) }
        ys == { coords[k][2] : k \in 1..Len(coords) }
    IN  /\ Min(xs) <= p[1] /\ p[1] <= Max(xs)
        /\ Min(ys) <= p[2] /\ p[2] <= Max(ys)

fill_poly(mask, coords) ==
    [p \in Pixels |-> IF inside(coords, p) THEN "white" ELSE mask[p]]

\* cv2.bitwise_and(img, mask) for a mask that is white or black per pixel.
bitwise_and(a, mask) ==
    [p \in Pixels |-> IF mask[p] = "white" THEN a[p] ELSE "black"]

\* The heap of numpy arrays: references "a_img" (the decoded picture),
\* "a_mask" and "a_masked" (allocated by __roi).
roi_in_place(heap, img, coords) ==
    IF Len(coords) < 4
    THEN [ret |-> NoneVal, heap |-> heap]
    ELSE LET mask == fill_poly(zeros_like(heap[img]), coords)
         IN  [ret |-> img,
              heap |-> [heap EXCEPT !["a_mask"] = mask,
                                    ![img] = bitwise_and(heap[img], mask)]]

\* __roi: returns None for fewer than 4 coordinates, else a new masked array.
roi(heap, img, coords) ==
    IF Len(coords) < 4
    THEN [ret |-> NoneVal, heap |-> heap]
    ELSE LET mask == fill_poly(zeros_like(heap[img]), coords)
         IN  [ret |-> "a_masked",
              heap |-> [heap EXCEPT !["a_mask"] = mask,
                                    !["a_masked"] = bitwise_and(heap[img], mask)]]

\* cv2.rectangle(img, (x1, y1), (x2, y2), green): the outline of the box.
rectangle(a, box) ==
    [p \in Pixels |->
        IF /\ box[1] <= p[1] /\ p[1] <= box[3]
           /\ box[2] <= p[2] /\ p[2] <= box[4]
           /\ (p[1] \in {box[1], box[3]} \/ p[2] \in {box[2], box[4]})
        THEN "green" ELSE a[p]]

\* for box in boxes: cv2.rectangle(img, ...)
RECURSIVE draw_boxes(_, _, _)
draw_boxes(a, boxes, k) ==
    IF k > Len(boxes) THEN a
    ELSE draw_boxes(rectangle(a, boxes[k]), boxes, k + 1)

\* direction.replace("/", "_"), a direction being its sequence of characters.
replace_slash(direction) ==
    [k \in 1..Len(direction) |-> IF direction[k] = "/" THEN "_" ELSE direction[k]]

\* ------------------------------------------------------------------ inputs
FullPolygon == << <<0, 0>>, <<1, 0>>, <<1, 1>>, <<0, 1>> >>
LeftPolygon == << <<0, 0>>, <<0, 0>>, <<0, 1>>, <<0, 1>> >>
ShortPolygon == << <<0, 0>>, <<1, 0>>, <<1, 1>> >>

\* 101_X_20230615083000.jpg (a Thursday), 101_X_20230617100000.jpg and
\* 102_X_20230617120000.jpg (a Saturday).
ImageSet ==
    { [CameraID |-> 101, Timestamp |-> [date |-> 19523, time |-> Time(8, 30, 0)]],
      [CameraID |-> 101, Timestamp |-> [date |-> 19525, time |-> Time(10, 0, 0)]],
      [CameraID |-> 102, Timestamp |-> [date |-> 19525, time |-> Time(12, 0, 0)]] }

RoiRowSet ==
    { [Camera_Id |-> 101, Coords |-> FullPolygon,  Direction |-> <<"N", "/", "S">>],
      [Camera_Id |-> 101, Coords |-> LeftPolygon,  Direction |-> <<"N">>],
      [Camera_Id |-> 101, Coords |-> ShortPolygon, Direction |-> <<"N">>],
      [Camera_Id |-> 102, Coords |-> FullPolygon,  Direction |-> <<"N">>] }

CamRow101 == [CameraID |-> 101, Latitude |-> 1, Longitude |-> 103]
CamRow102 == [CameraID |-> 102, Latitude |-> 2, Longitude |-> 104]
CamTables == { <<CamRow101, CamRow102>>, <<CamRow101>> }

\* What the detector may return for a masked image: n boxes, n a count below
\* or above the jam threshold.
DetectorCounts == {0, 7, 8}
DetectorResults == { [k \in 1..n |-> <<0, 0, k % 2, 0>>] : n \in DetectorCounts }

\* os.listdir names each file once.
ImageLists == { s \in SeqUpTo(ImageSet, MaxImages) :
                  \A j, k \in 1..Len(s) : j # k => s[j] # s[k] }

\* Inputs of the helper functions called on their own.
TimeSamples == { Time(1, 0, 0), Time(2, 0, 0), Time(12, 0, 0),
                 Time(22, 0, 0), Time(23, 0, 0) }
WindowSet == { w \in [Start : TimeSamples, End : TimeSamples] : TRUE }
CandidateSet == [AvgLat : Latitudes, AvgLon : Longitudes, LinkID : {1, 2}]
CamCoordSet == [Latitude : Latitudes, Longitude : Longitudes]

\* ------------------------------------------------------------------- state
VARIABLES
    images,          \* self.images: the image paths, in list order
    image_roi_df,    \* self.image_roi_df: the ROI table
    cam_lat_long,    \* self.cam_lat_long: the camera-coordinate table
    pc,              \* position in predict_vehicle_count
    error,           \* the exception that ended the run, if any
    n,               \* number of images the outer loop has taken
    camera_id, image_datetime, is_peak_flag, is_weekday_flag,
    rois, cam_coords, img,
    i,               \* index of the inner loop (0-based)
    roi_coords, direction, roi_img, result, vehicle_count, density, jam,
    heap,            \* the numpy arrays, by reference
    predict_arg,     \* what model.predict was last called with
    dirs,            \* directories created under images_dir
    bbox_files,      \* {direction}_{camera_id}_bbox.jpg, by <<direction, camera_id>>
    jam_files,       \* {direction}_{camera_id}_jam_info.txt: its lines
    result_list,
    result_df,       \* the returned table
    call, ret        \* a helper called on its own: its arguments and result

config == <<images, image_roi_df, cam_lat_long>>
image_locals == <<camera_id, image_datetime, is_peak_flag, is_weekday_flag,
                  rois, cam_coords, img>>
roi_locals == <<roi_coords, direction, roi_img, result, vehicle_count,
                density, jam>>
artifacts == <<dirs, bbox_files, jam_files>>
helper == <<call, ret>>
vars == <<config, pc, error, n, image_locals, i, roi_locals, heap, predict_arg,
          artifacts, result_list, result_df, helper>>

\* No array is allocated: every reference holds an empty raster.
EmptyHeap == [r \in {"a_img", "a_mask", "a_masked"} |-> << >>]

\* The state of a VehicleCount before predict_vehicle_count has bound
\* anything: nothing is written, and a local that is not bound yet holds a
\* value no step can give it (-1, an empty list, None for a reference).
Unbound ==
    /\ pc \in {"start", "idle"}
    /\ error = NoneVal
    /\ n = 0 /\ i = 0
    /\ camera_id = -1
    /\ image_datetime = [date |-> -1, time |-> -1]
    /\ is_peak_flag = -1 /\ is_weekday_flag = -1
    /\ rois = << >>
    /\ cam_coords = [Latitude |-> -1, Longitude |-> -1]
    /\ img = NoneVal
    /\ roi_coords = << >> /\ direction = << >> /\ roi_img = NoneVal
    /\ result = << >> /\ vehicle_count = -1
    /\ density = [num |-> -1, den |-> 1] /\ jam = -1
    /\ heap = EmptyHeap
    /\ predict_arg = [called |-> FALSE, none |-> FALSE, array |-> << >>]
    /\ dirs = {}
    /\ bbox_files = << >> /\ jam_files = << >>
    /\ result_list = << >>
    /\ result_df = << >>

\* __init__ followed by a call of predict_vehicle_count.
Init ==
    /\ images \in ImageLists
    /\ image_roi_df \in SeqUpTo(RoiRowSet, MaxRois)
    /\ cam_lat_long \in CamTables
    /\ pc = "start"
    /\ Unbound
    /\ call = [fn |-> NoneVal] /\ ret = [returned |-> FALSE]

\* ----------------------------------------------- predict_vehicle_count
\* result_list = []
Start ==
    /\ pc = "start"
    /\ pc' = "for_img"
    /\ result_list' = << >>
    /\ UNCHANGED <<config, error, n, image_locals, i, roi_locals, heap,
                   predict_arg, artifacts, result_df, helper>>

\* for img_path in self.images: parse the name (ParseIdentity).
ParseIdentity ==
    /\ pc = "for_img"
    /\ n < Len(images)
    /\ pc' = "select"
    /\ LET img_path == images[n + 1]
       IN  /\ camera_id' = img_path.CameraID
           /\ image_datetime' = img_path.Timestamp
           /\ is_peak_flag' = is_peak(img_path.Timestamp)
           /\ is_weekday_flag' = is_weekday(img_path.Timestamp)
    /\ n' = n + 1
    /\ UNCHANGED <<config, error, rois, cam_coords, img, i, roi_locals, heap,
                   predict_arg, artifacts, result_list, result_df, helper>>

\* rois, cam_coords and img of the current image (SelectROIs): the rows of a
\* table that match the camera id, in table order. The [0] of an
\* empty list of coordinate records raises IndexError.
SelectROIs ==
    /\ pc = "select"
    /\ LET IsCam(row) == row.Camera_Id = camera_id
           IsCamera(row) == row.CameraID = camera_id
           records == SelectSeq(cam_lat_long, IsCamera)
       IN  /\ \/ /\ Len(records) = 0
                 /\ pc' = "raised"
                 /\ error' = "IndexError"
                 /\ UNCHANGED <<cam_coords, img, heap, i>>
              \/ /\ Len(records) > 0
                 /\ pc' = "for_roi"
                 /\ cam_coords' = [Latitude |-> records[1].Latitude,
                                   Longitude |-> records[1].Longitude]
                 /\ img' = "a_img"
                 /\ heap' = [heap EXCEPT !["a_img"] = imread(images[n])]
                 /\ i' = 0
                 /\ UNCHANGED error
           /\ rois' = SelectSeq(image_roi_df, IsCam)
    /\ UNCHANGED <<config, n, camera_id, image_datetime, is_peak_flag,
                   is_weekday_flag, roi_locals, predict_arg, artifacts,
                   result_list, result_df, helper>>

\* for i in range(len(rois)): roi_coords, direction, roi_img (Mask).
Mask ==
    /\ pc = "for_roi"
    /\ i < Len(rois)
    /\ pc' = "predict"
    /\ LET coords == rois[i + 1].Coords
           r == roi(heap, img, coords)
       IN  /\ roi_coords' = coords
           /\ direction' = rois[i + 1].Direction
           /\ roi_img' = r.ret
           /\ heap' = r.heap
    /\ UNCHANGED <<config, error, n, image_locals, i, result, vehicle_count,
                   density, jam, predict_arg, artifacts, result_list,
                   result_df, helper>>

\* The inner loop is over: back to the outer loop.
EndImage ==
    /\ pc = "for_roi"
    /\ i >= Len(rois)
    /\ pc' = "for_img"
    /\ UNCHANGED <<config, error, n, image_locals, i, roi_locals, heap,
                   predict_arg, artifacts, result_list, result_df, helper>>

\* result = self.model.predict(roi_img, conf=0.5, iou=0.8)[0] (Detect). The
\* detector is external: on an array it returns some boxes; on None it
\* either raises or returns boxes for a picture of its own choosing.
Detect ==
    /\ pc = "predict"
    /\ \/ /\ pc' = "classify"
          /\ result' \in DetectorResults
          /\ UNCHANGED error
       \/ /\ roi_img = NoneVal
          /\ pc' = "raised"
          /\ error' = "DetectorError"
          /\ UNCHANGED result
    /\ predict_arg' = IF roi_img = NoneVal
                      THEN [called |-> TRUE, none |-> TRUE, array |-> << >>]
                      ELSE [called |-> TRUE, none |-> FALSE, array |-> heap[roi_img]]
    /\ UNCHANGED <<config, n, image_locals, i, roi_coords, direction, roi_img,
                   vehicle_count, density, jam, heap, artifacts, result_list,
                   result_df, helper>>

\* vehicle_count, density, jam (Classify).
Classify ==
    /\ pc = "classify"
    /\ pc' = "plot"
    /\ vehicle_count' = Len(result)
    /\ density' = density_of(Len(result))
    /\ jam' = jam_of(density_of(Len(result)))
    /\ UNCHANGED <<config, error, n, image_locals, i, roi_coords, direction,
                   roi_img, result, heap, predict_arg, artifacts, result_list,
                   result_df, helper>>

\* A file table with one file written.
WriteFile(files, path, content) ==
    [p \in DOMAIN files \cup {path} |-> IF p = path THEN content ELSE files[p]]

\* The lines of a log file (none if it does not exist).
Lines(files, path) == IF path \in DOMAIN files THEN files[path] ELSE << >>

\* __plot_bounding_box up to cv2.imwrite (Persist, the image): the boxes are
\* drawn in place on the array roi_img refers to, the directory is created if
\* absent and the picture is written over any earlier one. cv2.rectangle and
\* cv2.imwrite raise on None.
PlotBoundingBox_NoLog ==
    /\ pc = "plot"
    /\ roi_img # NoneVal
    /\ LET d == replace_slash(direction)
           drawn == draw_boxes(heap[roi_img], result, 1)
       IN  /\ pc' = "append"
           /\ heap' = [heap EXCEPT ![roi_img] = drawn]
           /\ dirs' = dirs \cup {d}
           /\ bbox_files' = WriteFile(bbox_files, <<d, camera_id>>, drawn)
           /\ UNCHANGED <<error, jam_files>>
    /\ UNCHANGED <<config, n, image_locals, i, roi_locals, predict_arg,
                   result_list, result_df, helper>>

PlotBoundingBox ==
    /\ pc = "plot"
    /\ LET d == replace_slash(direction)
       IN  \/ /\ roi_img # NoneVal
              /\ LET drawn == draw_boxes(heap[roi_img], result, 1)
                 IN  /\ pc' = "save_jam"
                     /\ heap' = [heap EXCEPT ![roi_img] = drawn]
                     /\ dirs' = dirs \cup {d}
                     /\ bbox_files' = WriteFile(bbox_files, <<d, camera_id>>, drawn)
                     /\ UNCHANGED error
           \/ /\ roi_img = NoneVal
              /\ Len(result) > 0
              /\ pc' = "raised"
              /\ error' = "cv2.error"
              /\ UNCHANGED <<heap, dirs, bbox_files>>
           \/ /\ roi_img = NoneVal
              /\ Len(result) = 0
              /\ pc' = "raised"
              /\ dirs' = dirs \cup {d}
              /\ error' = "cv2.error"
              /\ UNCHANGED <<heap, bbox_files>>
    /\ UNCHANGED <<config, n, image_locals, i, roi_locals, predict_arg,
                   jam_files, result_list, result_df, helper>>

\* __save_jam_info, called last by __plot_bounding_box with the sanitized
\* direction (Persist, the log line): one line appended, mode 'a'.
JamLine(d) == [Camera_ID |-> camera_id, Direction |-> d, Jam |-> jam]

SaveJamInfo_Truncating ==
    /\ pc = "save_jam"
    /\ pc' = "append"
    /\ LET d == replace_slash(direction)
       IN  /\ dirs' = dirs \cup {d}
           /\ jam_files' = WriteFile(jam_files, <<d, camera_id>>, <<JamLine(d)>>)
    /\ UNCHANGED <<config, error, n, image_locals, i, roi_locals, heap,
                   predict_arg, bbox_files, result_list, result_df, helper>>

SaveJamInfo ==
    /\ pc = "save_jam"
    /\ pc' = "append"
    /\ LET d == replace_slash(direction)
       IN  /\ dirs' = dirs \cup {d}
           /\ jam_files' = WriteFile(jam_files, <<d, camera_id>>,
                                Append(Lines(jam_files, <<d, camera_id>>), JamLine(d)))
    /\ UNCHANGED <<config, error, n, image_locals, i, roi_locals, heap,
                   predict_arg, bbox_files, result_list, result_df, helper>>

\* result_list.append([...]) (Emit), and the next i of the inner loop.
Record ==
    [Camera_Id |-> camera_id, Direction |-> direction,
     Vehicle_Count |-> vehicle_count, Density |-> density,
     Date |-> image_datetime.date, Time |-> image_datetime.time,
     Latitude |-> cam_coords.Latitude, Longitude |-> cam_coords.Longitude,
     Is_Weekday |-> is_weekday_flag, Is_Peak |-> is_peak_flag, Jam |-> jam]

Emit_Overwrite ==
    /\ pc = "append"
    /\ pc' = "for_roi"
    /\ result_list' = <<Record>>
    /\ i' = i + 1
    /\ UNCHANGED <<config, error, n, image_locals, roi_locals, heap,
                   predict_arg, artifacts, result_df, helper>>

Emit ==
    /\ pc = "append"
    /\ pc' = "for_roi"
    /\ result_list' = Append(result_list, Record)
    /\ i' = i + 1
    /\ UNCHANGED <<config, error, n, image_locals, roi_locals, heap,
                   predict_arg, artifacts, result_df, helper>>

\* result_df = pd.DataFrame(result_list, columns=[...]); return result_df
Return ==
    /\ pc = "for_img"
    /\ n >= Len(images)
    /\ pc' = "done"
    /\ result_df' = result_list
    /\ UNCHANGED <<config, error, n, image_locals, i, roi_locals, heap,
                   predict_arg, artifacts, result_list, helper>>

Next ==
    \/ Start
    \/ ParseIdentity
    \/ SelectROIs
    \/ Mask
    \/ EndImage
    \/ Detect
    \/ Classify
    \/ PlotBoundingBox
    \/ SaveJamInfo
    \/ Emit
    \/ Return

Spec == Init /\ [][Next]_vars

\* The loops of predict_vehicle_count run to their end: the function is one
\* sequential thread, which takes its next step whenever it has one.
FairSpec == Init /\ [][Next]_vars /\ WF_vars(Next)

\* ------------------------------------------- the helpers called on their own
\* One call of a helper, its arguments drawn from the input sets: is_peak at
\* every second of the day, the loop of is_peak over every list of windows,
\* closest over every candidate list, the density formula for every count.
HelperInit ==
    /\ images = << >> /\ image_roi_df = << >> /\ cam_lat_long = << >>
    /\ pc = "idle"
    /\ Unbound
    /\ \/ \E t \in 0..(SecondsPerDay - 1) : call = [fn |-> "is_peak", t |-> t]
       \/ \E k \in 0..MaxWindows : \E ws \in [1..k -> WindowSet] :
             \E t \in TimeSamples :
                call = [fn |-> "is_peak_over", windows |-> ws, t |-> t]
       \/ \E k \in 0..MaxCandidates : \E d \in [1..k -> CandidateSet] :
             \E c \in CamCoordSet :
                call = [fn |-> "closest", data |-> d, cam_coords |-> c]
       \/ \E c \in 0..MaxCount : call = [fn |-> "density", vehicle_count |-> c]
    /\ ret = [returned |-> FALSE]

Frame == UNCHANGED <<config, pc, error, n, image_locals, i, roi_locals, heap,
                     predict_arg, artifacts, result_list, result_df, call>>

CallIsPeak ==
    /\ pc = "idle" /\ ~ret.returned /\ call.fn = "is_peak"
    /\ ret' = [returned |-> TRUE, value |-> is_peak([date |-> 0, time |-> call.t])]
    /\ Frame

CallIsPeakOver ==
    /\ pc = "idle" /\ ~ret.returned /\ call.fn = "is_peak_over"
    /\ ret' = [returned |-> TRUE, value |-> is_peak_over(call.windows, call.t)]
    /\ Frame

CallClosest ==
    /\ pc = "idle" /\ ~ret.returned /\ call.fn = "closest"
    /\ ret' = [returned |-> TRUE, value |-> closest(call.data, call.cam_coords)]
    /\ Frame

CallDensity ==
    /\ pc = "idle" /\ ~ret.returned /\ call.fn = "density"
    /\ ret' = [returned |-> TRUE,
               density |-> density_of(call.vehicle_count),
               jam |-> jam_of(density_of(call.vehicle_count))]
    /\ Frame

HelperNext ==
    \/ CallIsPeak
    \/ CallIsPeakOver
    \/ CallClosest
    \/ CallDensity

HelperSpec == HelperInit /\ [][HelperNext]_vars

\* ================================================================ properties
IsPrefix(s, t) == Len(s) <= Len(t) /\ SubSeq(t, 1, Len(s)) = s

\* The (image, ROI row) pairs of the inputs: <<k, r>> for image k and row r of
\* the ROI table with that image's camera id; processing order is by image,
\* then by row.
PairSet ==
    { p \in (1..Len(images)) \X (1..Len(image_roi_df)) :
        image_roi_df[p[2]].Camera_Id = images[p[1]].CameraID }

Before(p, q) == p[1] < q[1] \/ (p[1] = q[1] /\ p[2] < q[2])

Rank(p) == Cardinality({ q \in PairSet : Before(q, p) }) + 1

RECURSIVE SumLines(_, _)
SumLines(files, paths) ==
    IF paths = {} THEN 0
    ELSE LET path == CHOOSE x \in paths : TRUE
         IN  Len(files[path]) + SumLines(files, paths \ {path})

TotalLines == SumLines(jam_files, DOMAIN jam_files)

\* ---- C1
C1_Final ==
    pc = "done" =>
        /\ Len(result_df) = Cardinality(PairSet)
        /\ \A p \in PairSet :
              LET rec == result_df[Rank(p)]
                  image == images[p[1]]
                  row == image_roi_df[p[2]]
              IN  /\ rec.Camera_Id = image.CameraID
                  /\ rec.Direction = row.Direction
                  /\ rec.Date = image.Timestamp.date
                  /\ rec.Time = image.Timestamp.time

C1_AppendOnly == IsPrefix(result_list, result_list')

\* C1: when predict_vehicle_count has returned, the table holds exactly one
\* record per (image, ROI row of the image's camera) pair, the record of a
\* pair standing at the pair's rank in processing order; and every step
\* leaves the records appended so far in place (the list only grows at its
\* end).
C1_OneRecordPerPair == []C1_Final /\ [][C1_AppendOnly]_vars

\* Two images of one camera with two ROI rows each have been processed.
C1_Witness == pc = "done" /\ Len(result_df) = 4 /\ Len(images) = 2

\* ---- C2
\* C2: for a vehicle count n the density is n / 0.3 (num/den = 10n/3) and the
\* jam flag is 1 exactly when n / 0.3 >= 23.33, that is 1000 n >= 3 * 2333;
\* hence jam is 1 from n = 7 on, and for n = 8.
C2_DensityAndJam ==
    (call.fn = "density" /\ ret.returned) =>
        LET c == call.vehicle_count
        IN  /\ ret.density.num * 3 = 10 * c * ret.density.den
            /\ ret.jam \in {0, 1}
            /\ (ret.jam = 1 <=> 1000 * c >= 3 * 2333)
            /\ (ret.jam = 1 <=> c >= 7)
            /\ (c = 8 => ret.jam = 1)

C2_Witness ==
    call.fn = "density" /\ ret.returned /\ call.vehicle_count = 8 /\ ret.jam = 1

\* ---- C3
\* C3 as stated: is_peak is 1 exactly on the half-open windows
\* [08:00:00, 10:00:00) and [18:00:00, 20:30:00).
C3_HalfOpenWindows ==
    (call.fn = "is_peak" /\ ret.returned) =>
        (ret.value = 1 <=>
            \/ Time(8, 0, 0) <= call.t /\ call.t < Time(10, 0, 0)
            \/ Time(18, 0, 0) <= call.t /\ call.t < Time(20, 30, 0))

\* C3 amended: is_peak is 1 exactly on the closed windows
\* [08:00:00, 10:00:00] and [18:00:00, 20:30:00], and 0 otherwise (1 at
\* 08:00:00, 09:59:59 and at the window end itself; 0 at 07:59:59 and
\* 10:00:01).
C3_ClosedWindows ==
    (call.fn = "is_peak" /\ ret.returned) =>
        /\ ret.value \in {0, 1}
        /\ (ret.value = 1 <=>
              \/ Time(8, 0, 0) <= call.t /\ call.t <= Time(10, 0, 0)
              \/ Time(18, 0, 0) <= call.t /\ call.t <= Time(20, 30, 0))

\* is_peak has answered 1 at a window's end.
C3_Witness ==
    call.fn = "is_peak" /\ ret.returned /\ call.t = Time(20, 30, 0) /\ ret.value = 1

\* ---- C4
\* C4: a region of fewer than 4 points is skipped: the detector is never
\* called for it (never called with None) and it does not end the run.
C4_ShortRegionSkipped ==
    /\ predict_arg.called => ~predict_arg.none
    /\ pc = "raised" => error = "IndexError"

\* ---- C5
\* C5: an image whose camera has no ROI row or no coordinate row is skipped
\* and the run goes on: the run never ends in an IndexError.
C5_MissingReferenceSkipped ==
    ~(pc = "raised" /\ error = "IndexError")

\* ---- C6
\* The lines a log file must hold: one per record of its camera and
\* (sanitized) direction, in record order, with the record's jam value.
LinesFor(path) ==
    LET Mine(rec) == /\ replace_slash(rec.Direction) = path[1]
                     /\ rec.Camera_Id = path[2]
        mine == SelectSeq(result_list, Mine)
    IN  [k \in 1..Len(mine) |->
            [Camera_ID |-> mine[k].Camera_Id, Direction |-> path[1],
             Jam |-> mine[k].Jam]]

C6_Final ==
    pc \in {"done", "raised"} =>
        /\ TotalLines = Len(result_list)
        /\ \A k \in 1..Len(result_list) :
              <<replace_slash(result_list[k].Direction), result_list[k].Camera_Id>>
                  \in DOMAIN jam_files
        /\ \A path \in DOMAIN jam_files : jam_files[path] = LinesFor(path)

C6_AppendOnly ==
    \A path \in DOMAIN jam_files :
        /\ path \in DOMAIN jam_files'
        /\ IsPrefix(jam_files[path], jam_files'[path])

\* C6: every step keeps every log file's earlier lines (a file only grows at
\* its end), and when the run has ended the log files hold exactly one line
\* per record: each file holds, in order, the lines of the records of its
\* camera and direction, with the record's camera id and jam value.
C6_LogAppendOnly == []C6_Final /\ [][C6_AppendOnly]_vars

\* A run has ended with a log file of two lines and a second log file.
C6_Witness ==
    /\ pc = "done"
    /\ Cardinality(DOMAIN jam_files) = 2
    /\ \E path \in DOMAIN jam_files : Len(jam_files[path]) = 2

\* ---- C7
\* C7: on a non-empty candidate list closest returns the 0-based index of
\* the first candidate at minimal distance, that candidate and its distance.
C7_ClosestFirstMinimum ==
    (call.fn = "closest" /\ ret.returned /\ Len(call.data) > 0) =>
        LET D(k) == haversine_table[<<call.cam_coords.Latitude,
                                      call.cam_coords.Longitude,
                                      call.data[k].AvgLat, call.data[k].AvgLon>>]
            v == ret.value
        IN  /\ v.raised = NoneVal
            /\ v.index \in 0..(Len(call.data) - 1)
            /\ v.lat_long = call.data[v.index + 1]
            /\ v.distance = D(v.index + 1)
            /\ \A k \in 1..Len(call.data) : D(k) >= D(v.index + 1)
            /\ \A k \in 1..v.index : D(k) > D(v.index + 1)

\* Two candidates tie for the minimum behind a farther one; the first of the
\* two is returned.
C7_Witness ==
    /\ call.fn = "closest" /\ ret.returned /\ Len(call.data) = 3
    /\ ret.value.index = 1
    /\ call.data[2] # call.data[3]
    /\ key_distance(call.cam_coords, call.data[2])
         = key_distance(call.cam_coords, call.data[3])
    /\ key_distance(call.cam_coords, call.data[1])
         > key_distance(call.cam_coords, call.data[2])

\* ---- C8
C8_Inv ==
    /\ TotalLines - Len(result_list) \in {0, 1}
    /\ (TotalLines = Len(result_list) + 1) <=> pc = "append"
    /\ pc = "done" => n = Len(images) /\ Len(result_df) = Cardinality(PairSet)

\* One pair's steps follow each other in the order Mask, Detect, Classify,
\* Persist (image, then log line), Emit, and each effect belongs to its step.
C8_Order ==
    /\ pc = "for_roi" => pc' \in {"for_roi", "predict", "for_img"}
    /\ pc = "predict" => pc' \in {"predict", "classify", "raised"}
    /\ pc = "classify" => pc' \in {"classify", "plot"}
    /\ pc = "plot" => pc' \in {"plot", "save_jam", "raised"}
    /\ pc = "save_jam" => pc' \in {"save_jam", "append"}
    /\ pc = "append" => pc' \in {"append", "for_roi"}
    /\ pc # "for_roi" => UNCHANGED roi_img
    /\ pc # "predict" => UNCHANGED <<predict_arg, result>>
    /\ pc # "classify" => UNCHANGED <<vehicle_count, density, jam>>
    /\ pc # "plot" => UNCHANGED bbox_files
    /\ pc # "save_jam" => UNCHANGED jam_files
    /\ pc # "append" => UNCHANGED result_list
    /\ pc # "for_img" => UNCHANGED n
    /\ pc = "for_img" => n' \in {n, n + 1}
    /\ pc \notin {"append", "select"} => UNCHANGED i
    /\ pc = "append" => i' \in {i, i + 1}

\* No input makes a step fail: every polygon has 4 points or more and every
\* image's camera has a coordinate row.
C8_NoFailure ==
    /\ \A r \in 1..Len(image_roi_df) : Len(image_roi_df[r].Coords) >= 4
    /\ \A k \in 1..Len(images) : \E c \in 1..Len(cam_lat_long) :
          cam_lat_long[c].CameraID = images[k].CameraID

\* C8: the steps of a pair happen in the order Mask, Detect, Classify,
\* Persist, Emit and nothing of the next pair starts before the record is
\* emitted: the log holds as many lines as there are records, or exactly one
\* more (between the log line and the record); and when no step fails the
\* run reaches Done, with every image and ROI row processed.
C8_Sequential ==
    /\ []C8_Inv
    /\ [][C8_Order]_vars
    /\ (C8_NoFailure => <>(pc = "done"))

\* The run is done after two images, and records were emitted.
C8_Witness ==
    pc = "done" /\ Len(images) = 2 /\ Len(result_list) >= 3 /\ C8_NoFailure

\* ---- C9
InWindow(w, x) ==
    IF w.Start <= w.End THEN w.Start <= x /\ x <= w.End
                        ELSE x >= w.Start \/ x <= w.End

\* C9: over any list of windows is_peak is the OR, over the windows, of the
\* range test: start <= x <= end when start <= end, and x >= start or
\* x <= end when start > end (so, for a single window, it is that test; for
\* 22:00-02:00 it is 1 at 23:00 and 01:00 and 0 at 12:00).
C9_WindowsOred ==
    (call.fn = "is_peak_over" /\ ret.returned) =>
        /\ ret.value \in {0, 1}
        /\ (ret.value = 1 <=>
              \E k \in 1..Len(call.windows) : InWindow(call.windows[k], call.t))

\* The first window misses and the second, which wraps midnight, matches.
C9_Witness ==
    /\ call.fn = "is_peak_over" /\ ret.returned /\ ret.value = 1
    /\ Len(call.windows) = 2
    /\ call.windows[1] = [Start |-> Time(1, 0, 0), End |-> Time(2, 0, 0)]
    /\ call.windows[2] = [Start |-> Time(22, 0, 0), End |-> Time(2, 0, 0)]
    /\ call.t = Time(23, 0, 0)

\* ---- C10
\* What masking the decoded picture a with the polygon coords must give.
MaskOf(a, coords) ==
    [p \in Pixels |-> IF inside(coords, p) THEN a[p] ELSE "black"]

C10_Inv ==
    /\ pc \in {"for_roi", "predict", "classify", "plot", "save_jam", "append"}
         => heap[img] = imread(images[n])
    /\ (pc = "classify" /\ predict_arg.called /\ ~predict_arg.none)
         => predict_arg.array = MaskOf(imread(images[n]), roi_coords)

\* C10: while the ROI rows of an image are processed the decoded picture
\* stays as it was read, the array handed to the detector for a row is the
\* decoded picture masked with that row's polygon, whatever was masked or
\* drawn for the rows before it, and no step changes the ROI table, the
\* camera-coordinate table or the image list.
C10_ImageUntouched == []C10_Inv /\ [][UNCHANGED config]_vars

\* The detector has been called for the second ROI row of an image after
\* boxes were drawn for the first.
C10_Witness ==
    /\ pc = "classify" /\ i = 1 /\ predict_arg.called /\ ~predict_arg.none
    /\ \E path \in DOMAIN bbox_files : \E p \in Pixels :
          bbox_files[path][p] = "green"

====
